---- MODULE Spec2Model ----
(***************************************************************************)
(* Model of panopticon (run.py): a Discord logging bot.  Gateway events    *)
(* (message created, message edited) are dispatched to listener            *)
(* coroutines; the listeners route a message to a log file path, format    *)
(* it as one text line and append the line to the file.                    *)
(*                                                                         *)
(* Text is modelled as sequences of one-character strings, so that         *)
(* formatting, sanitising and line splitting are computed as run.py        *)
(* computes them.                                                          *)
(***************************************************************************)
EXTENDS Integers, Sequences, FiniteSets, TLC

None == "None"

\* ------------------------------------------------------------------ bounds
\* Number of gateway events (created + edited) delivered to the bot.
MaxEvents == 2
\* Number of hours the wall clock advances during the session.
MaxClock == 1

\* ------------------------------------------------------- configuration
\* config.MAX_MESSAGES: size of the client message cache (bot.run, line 218).
MAX_MESSAGES == 1
\* config.LOG_DIR
LOG_DIR == <<"l", "o", "g">>
\* config.IGNORE_SERVERS: guild ids that are not logged.
IGNORE_SERVERS == {8}

\* ----------------------------------------------------------- text helpers
Digits == <<"0", "1", "2", "3", "4", "5", "6", "7", "8", "9">>

Digit(d) == Digits[d + 1]

\* str(n) / "{}".format(n) for a non-negative integer.
RECURSIVE Str(_)
Str(n) == IF n < 10 THEN <<Digit(n)>> ELSE Str(n \div 10) \o <<Digit(n % 10)>>

\* strftime zero padding to two digits (%m %d %H %M %S %y).
Pad2(n) == <<Digit((n \div 10) % 10), Digit(n % 10)>>

\* strftime %Y of a four-digit year.
Pad4(n) == Pad2(n \div 100) \o Pad2(n % 100)

\* Characters removed by clean_filename: / \ : * ? " < > | and the control
\* characters 0x00-0x1f (of which the model's alphabet holds "\n" and "\t").
ForbiddenChars == {"/", "\\", ":", "*", "?", "\"", "<", ">", "|", "\n", "\t"}

RECURSIVE clean_filename(_)
clean_filename(string) ==
    IF string = <<>> THEN <<>>
    ELSE IF Head(string) \in ForbiddenChars THEN clean_filename(Tail(string))
    ELSE <<Head(string)>> \o clean_filename(Tail(string))

\* str.replace('\n', '\n(newline) ')
NewlineMark == <<"\n", "(", "n", "e", "w", "l", "i", "n", "e", ")", " ">>

RECURSIVE ReplaceNewlines(_)
ReplaceNewlines(s) ==
    IF s = <<>> THEN <<>>
    ELSE (IF Head(s) = "\n" THEN NewlineMark ELSE <<Head(s)>>)
         \o ReplaceNewlines(Tail(s))

\* ------------------------------------------------------------- base64
B64Alphabet ==
    <<"A","B","C","D","E","F","G","H","I","J","K","L","M","N","O","P",
      "Q","R","S","T","U","V","W","X","Y","Z","a","b","c","d","e","f",
      "g","h","i","j","k","l","m","n","o","p","q","r","s","t","u","v",
      "w","x","y","z","0","1","2","3","4","5","6","7","8","9","+","/">>

B64Char(i) == B64Alphabet[i + 1]

\* int(id).to_bytes(8, byteorder='little')
RECURSIVE BytesLE(_, _)
BytesLE(n, length) ==
    IF length = 0 THEN <<>> ELSE <<n % 256>> \o BytesLE(n \div 256, length - 1)

ToBytesLE(n) == BytesLE(n, 8)

\* One full base64 group: three bytes to four characters.
B64Group(a, b, c) ==
    LET v == a * 65536 + b * 256 + c
    IN  <<B64Char(v \div 262144), B64Char((v \div 4096) % 64),
          B64Char((v \div 64) % 64), B64Char(v % 64)>>

\* The last group of an 8-byte input: two bytes, three characters and "=".
B64Tail2(a, b) ==
    LET v == a * 65536 + b * 256
    IN  <<B64Char(v \div 262144), B64Char((v \div 4096) % 64),
          B64Char((v \div 64) % 64), "=">>

\* base64.b64encode of 8 bytes.
b64encode(bs) ==
    B64Group(bs[1], bs[2], bs[3]) \o B64Group(bs[4], bs[5], bs[6])
        \o B64Tail2(bs[7], bs[8])

\* ------------------------------------------------------------ datetimes
\* A naive datetime: [year, month, day, hour, minute, second].
IsLeap(y) == (y % 4 = 0 /\ y % 100 # 0) \/ y % 400 = 0

DaysInMonth(y, m) ==
    IF m = 2 THEN (IF IsLeap(y) THEN 29 ELSE 28)
    ELSE IF m \in {4, 6, 9, 11} THEN 30 ELSE 31

NextDay(dt) ==
    IF dt.day < DaysInMonth(dt.year, dt.month) THEN [dt EXCEPT !.day = @ + 1]
    ELSE IF dt.month < 12 THEN [dt EXCEPT !.day = 1, !.month = @ + 1]
    ELSE [dt EXCEPT !.day = 1, !.month = 1, !.year = @ + 1]

\* dt + timedelta(hours=n), n >= 0.
RECURSIVE AddHours(_, _)
AddHours(dt, n) ==
    IF n = 0 THEN dt
    ELSE IF dt.hour < 23 THEN AddHours([dt EXCEPT !.hour = @ + 1], n - 1)
    ELSE AddHours([NextDay(dt) EXCEPT !.hour = 0], n - 1)

\* strftime('%F'), i.e. %Y-%m-%d
StrfF(dt) == Pad4(dt.year) \o <<"-">> \o Pad2(dt.month) \o <<"-">> \o Pad2(dt.day)

\* strftime('%D'), i.e. %m/%d/%y
StrfD(dt) == Pad2(dt.month) \o <<"/">> \o Pad2(dt.day) \o <<"/">> \o Pad2(dt.year % 100)

\* strftime('%Y-%m-%D')
StrfYmD(dt) == Pad4(dt.year) \o <<"-">> \o Pad2(dt.month) \o <<"-">> \o StrfD(dt)

\* strftime('[%H:%M:%S]')
StrfHMS(dt) ==
    <<"[">> \o Pad2(dt.hour) \o <<":">> \o Pad2(dt.minute) \o <<":">>
        \o Pad2(dt.second) \o <<"]">>

\* ------------------------------------------------- platform entities
\* message.guild is None for a conversation outside any guild.
NoGuild == [id |-> 0, name |-> <<>>]

\* message.edited_at is None for a message that was never edited.
NoTime == [year |-> 0, month |-> 0, day |-> 0, hour |-> 0, minute |-> 0, second |-> 0]

\* utcnow() when the session starts.
Epoch == [year |-> 2023, month |-> 12, day |-> 31, hour |-> 23, minute |-> 30, second |-> 5]

TestGuild == [id |-> 7, name |-> <<"T", "/", "G">>]

IgnoredGuild == [id |-> 8, name |-> <<"I", "g">>]

Me == [id |-> 11, name |-> <<"m", "e">>, discriminator |-> <<"0", "0", "0", "1">>]

Bob == [id |-> 12, name |-> <<"b", "*", "b">>, discriminator |-> <<"0", "0", "0", "2">>]

\* The conversations of the session, by channel id.  kind is the class of
\* message.channel; "VoiceChannel" stands for every class that is none of
\* TextChannel, DMChannel and GroupChannel.
Channels ==
    {[id |-> 2, kind |-> "TextChannel", name |-> <<"g", "e", "n">>, guild |-> TestGuild, recipient |-> Bob],
     [id |-> 3, kind |-> "TextChannel", name |-> <<"i", "g">>, guild |-> IgnoredGuild, recipient |-> Bob],
     [id |-> 4, kind |-> "DMChannel", name |-> <<>>, guild |-> NoGuild, recipient |-> Bob],
     [id |-> 5, kind |-> "GroupChannel", name |-> <<"g", "r", "p">>, guild |-> NoGuild, recipient |-> Bob],
     [id |-> 6, kind |-> "VoiceChannel", name |-> <<"v", "c">>, guild |-> TestGuild, recipient |-> Bob]}

\* Message bodies: clean_content and the attachment urls.
PlainBody == [content |-> <<"h", "i">>, attachments |-> <<>>]

LongBody ==
    [content |-> <<"a", "\n", "S", "e", "s", "s", "i", "o", "n", " ", "s", "t", "a", "r", "t", ":", " ">>,
     attachments |-> << <<"u", "1">>, <<"u", "2">> >>]

\* The body an edit gives a message.
EditedBody == [content |-> <<"e", "d">>, attachments |-> <<>>]

\* What is sent during the session: who writes what where.  In the direct
\* message conversation both parties write.
BodyIn(c) == IF c.kind = "GroupChannel" THEN LongBody ELSE PlainBody

Posts ==
    {[channel |-> c.id, author |-> Bob, body |-> BodyIn(c)] : c \in Channels}
    \cup {[channel |-> 4, author |-> Me, body |-> PlainBody]}

\* Messages sent an hour before the session started, one in a logged guild
\* and one in an ignored guild: the client never cached them.
OldTime == [Epoch EXCEPT !.hour = 22]

OldMessages ==
    <<[id |-> 1, channel |-> 2, author |-> Bob, created_at |-> OldTime, edited_at |-> NoTime,
       content |-> PlainBody.content, attachments |-> PlainBody.attachments],
      [id |-> 2, channel |-> 3, author |-> Bob, created_at |-> OldTime, edited_at |-> NoTime,
       content |-> PlainBody.content, attachments |-> PlainBody.attachments]>>

\* The timezones a host runs in: UTC, which defines no daylight saving time,
\* and Central European (Summer) Time, which does (time.daylight is 1).
Timezones == {[utcoffset |-> 0, daylight |-> 0], [utcoffset |-> 2, daylight |-> 1]}

\* ----------------------------------------------------------------- state
VARIABLES
    USE_LOCALTIME,  \* config.USE_LOCALTIME
    localtz,        \* the host's timezone: utcoffset (hours ahead of UTC), daylight
    clock,          \* hours elapsed since Epoch
    messages,       \* the platform's messages, by position; id = position
    cache,          \* bot._connection._messages: ids, oldest first
    arrivals,       \* number of gateway events delivered so far
    events,         \* history: the gateway events, in order of arrival
    ready,          \* listener tasks scheduled and not yet started, in order
    waiting,        \* on_raw_message_edit tasks suspended in get_message
    files,          \* the file system's regular files: path -> content
    dirs,           \* the file system's directories
    written,        \* history: path -> the calls of write for it, in order
    errors,         \* history: exceptions that escaped a listener
    drops           \* history: raw edits given up for want of channel or message

vars == <<USE_LOCALTIME, localtz, clock, messages, cache, arrivals, events,
          ready, waiting, files, dirs, written, errors, drops>>

config == <<USE_LOCALTIME, localtz>>

utcnow == AddHours(Epoch, clock)

\* datetime.now(): the local wall clock.
now == AddHours(utcnow, localtz.utcoffset)

ChannelOf(id) == CHOOSE c \in Channels : c.id = id

\* ------------------------------------------------------ run.py functions
\* Python's None as the value of make_filename: it is no text.
NoPath == <<None>>

\* The timestamp both make_filename and make_message start from.
EffectiveTime(message) ==
    IF message.edited_at # NoTime THEN message.edited_at ELSE message.created_at

make_filename(message) ==
    LET time == EffectiveTime(message)
        timestamp == StrfF(time)
        channel == ChannelOf(message.channel)
        log == <<".", "l", "o", "g">>
    IN  IF channel.kind = "TextChannel" THEN
            LOG_DIR \o <<"/">> \o clean_filename(channel.guild.name) \o <<"-">>
                \o Str(channel.guild.id) \o <<"/", "#">>
                \o clean_filename(channel.name) \o <<"-">> \o Str(channel.id)
                \o <<"/">> \o timestamp \o log
        ELSE IF channel.kind = "DMChannel" THEN
            LOG_DIR \o <<"/", "D", "M", "/">> \o clean_filename(message.author.name)
                \o <<"-">> \o Str(message.author.id) \o <<"/">> \o timestamp \o log
        ELSE IF channel.kind = "GroupChannel" THEN
            LOG_DIR \o <<"/", "D", "M", "/">> \o clean_filename(channel.name)
                \o <<"-">> \o Str(channel.id) \o <<"/">> \o timestamp \o log
        ELSE NoPath

\* time.replace(tzinfo=timezone.utc).astimezone(tz=None)
astimezone(time) == AddHours(time, localtz.utcoffset)

\* '[E:' or '[' followed by the base64 of the id and ']'.
IdTag(message) ==
    (IF message.edited_at # NoTime THEN <<"[", "E", ":">> ELSE <<"[">>)
        \o b64encode(ToBytesLE(message.id)) \o <<"]">>

\* The time make_message prints.
DisplayTime(message) ==
    IF USE_LOCALTIME THEN astimezone(EffectiveTime(message))
    ELSE EffectiveTime(message)

AttachMark == <<"\n", "(", "a", "t", "t", "a", "c", "h", ")", " ">>

RECURSIVE Attachments(_)
Attachments(atts) ==
    IF atts = <<>> THEN <<>>
    ELSE AttachMark \o Head(atts) \o Attachments(Tail(atts))

make_message(message) ==
    LET message_id == IdTag(message)
        timestamp == StrfHMS(DisplayTime(message))
        author == <<"<">> \o message.author.name \o <<"#">>
                      \o message.author.discriminator \o <<">">>
        content == ReplaceNewlines(message.content)
        attachments == Attachments(message.attachments)
    IN  message_id \o <<" ">> \o timestamp \o <<" ">> \o author \o <<" ">>
            \o content \o <<" ">> \o attachments

\* os.path.dirname
RECURSIVE dirname(_)
dirname(path) ==
    IF path = <<>> THEN <<>>
    ELSE IF path[Len(path)] = "/" THEN SubSeq(path, 1, Len(path) - 1)
    ELSE dirname(SubSeq(path, 1, Len(path) - 1))

\* os.makedirs(d, exist_ok=True): d and every missing ancestor.
RECURSIVE makedirs(_)
makedirs(d) == IF d = <<>> THEN {} ELSE {d} \cup makedirs(dirname(d))

\* os.path.exists
exists(path) == path \in DOMAIN files \/ path \in dirs

SessionPrefix ==
    <<"S", "e", "s", "s", "i", "o", "n", " ", "s", "t", "a", "r", "t", ":", " ">>

\* 'Session start: {} {}:00\n'.format(dt_object.strftime('%Y-%m-%D'), starthour)
SessionStart ==
    LET dt_object == IF USE_LOCALTIME THEN now ELSE utcnow
        starthour == IF localtz.daylight # 0 THEN 11 ELSE 10
    IN  SessionPrefix \o StrfYmD(dt_object) \o <<" ">> \o Str(starthour)
            \o <<":", "0", "0", "\n">>

\* write with the file opened in mode 'w' instead of 'a'.
write_truncating(filename, string, t) ==
    LET created == ~exists(filename)
        new == (IF created THEN SessionStart ELSE <<>>) \o string \o <<"\n">>
    IN  /\ dirs' = dirs \cup makedirs(dirname(filename))
        /\ files' = [p \in DOMAIN files \cup {filename} |->
                        IF p = filename THEN new ELSE files[p]]
        /\ written' = [p \in DOMAIN written \cup {filename} |->
                          IF p = filename
                          THEN Append(IF p \in DOMAIN written THEN written[p] ELSE <<>>,
                                      [arrival |-> t.arrival, handler |-> t.handler,
                                       message |-> messages[t.id], string |-> string])
                          ELSE written[p]]

\* write without the test of exists: the marker goes before every line.
write_marking_always(filename, string, t) ==
    LET old == IF filename \in DOMAIN files THEN files[filename] ELSE <<>>
        new == old \o SessionStart \o string \o <<"\n">>
    IN  /\ dirs' = dirs \cup makedirs(dirname(filename))
        /\ files' = [p \in DOMAIN files \cup {filename} |->
                        IF p = filename THEN new ELSE files[p]]
        /\ written' = [p \in DOMAIN written \cup {filename} |->
                          IF p = filename
                          THEN Append(IF p \in DOMAIN written THEN written[p] ELSE <<>>,
                                      [arrival |-> t.arrival, handler |-> t.handler,
                                       message |-> messages[t.id], string |-> string])
                          ELSE written[p]]

\* write(filename, string), called for listener task t.
write(filename, string, t) ==
    LET created == ~exists(filename)
        old == IF filename \in DOMAIN files THEN files[filename] ELSE <<>>
        new == old \o (IF created THEN SessionStart ELSE <<>>) \o string \o <<"\n">>
    IN  /\ dirs' = dirs \cup makedirs(dirname(filename))
        /\ files' = [p \in DOMAIN files \cup {filename} |->
                        IF p = filename THEN new ELSE files[p]]
        /\ written' = [p \in DOMAIN written \cup {filename} |->
                          IF p = filename
                          THEN Append(IF p \in DOMAIN written THEN written[p] ELSE <<>>,
                                      [arrival |-> t.arrival, handler |-> t.handler,
                                       message |-> messages[t.id], string |-> string])
                          ELSE written[p]]

GuildOf(message) == ChannelOf(message.channel).guild

Raise(t, exc) ==
    errors' = errors \cup {[arrival |-> t.arrival, handler |-> t.handler, exc |-> exc]}

\* handle_message without the test of IGNORE_SERVERS.
handle_message_unfiltered(message, t) ==
    LET filename == make_filename(message)
        string == make_message(message)
    IN  IF filename = NoPath
        THEN /\ errors' = errors \cup {[arrival |-> t.arrival, handler |-> t.handler,
                                        exc |-> "TypeError"]}
             /\ UNCHANGED <<files, dirs, written>>
        ELSE /\ write(filename, string, t)
             /\ UNCHANGED errors

\* handle_message(message), called by listener task t.  A filename of None
\* makes os.path.dirname raise TypeError before anything is created.
handle_message(message, t) ==
    IF GuildOf(message) # NoGuild /\ GuildOf(message).id \in IGNORE_SERVERS
    THEN UNCHANGED <<files, dirs, written, errors>>
    ELSE LET filename == make_filename(message)
             string == make_message(message)
         IN  IF filename = NoPath
             THEN /\ Raise(t, "TypeError")
                  /\ UNCHANGED <<files, dirs, written>>
             ELSE /\ write(filename, string, t)
                  /\ UNCHANGED errors

\* --------------------------------------------------------------- Init
\* The state when bot.run starts: configuration read, no message seen,
\* nothing scheduled, nothing cached.  The log directory is empty.
Init ==
    /\ USE_LOCALTIME \in BOOLEAN
    /\ localtz \in Timezones
    /\ clock = 0
    /\ messages = OldMessages
    /\ cache = <<>>
    /\ arrivals = 0
    /\ events = <<>>
    /\ ready = <<>>
    /\ waiting = {}
    /\ files = [p \in {} |-> <<>>]
    /\ dirs = {}
    /\ written = [p \in {} |-> <<>>]
    /\ errors = {}
    /\ drops = {}

\* ------------------------------------------------- the connection layer
\* The gateway reader parses one event at a time.  Parsing updates the
\* message cache and schedules one task per registered listener; the event
\* loop starts tasks in the order they were scheduled, so the listeners of
\* an event run up to their first suspension before the reader parses the
\* next event and before a suspended listener is resumed.

Task(handler, id) == [handler |-> handler, id |-> id, arrival |-> arrivals + 1]

\* deque(maxlen=MAX_MESSAGES).append
CacheAppend(c, id) ==
    LET all == Append(c, id)
    IN  IF Len(all) > MAX_MESSAGES THEN SubSeq(all, Len(all) - MAX_MESSAGES + 1, Len(all))
        ELSE all

Cached(id) == \E i \in 1..Len(cache) : cache[i] = id

\* MESSAGE_CREATE: the message is cached and on_message is dispatched.
MessageCreate(post) ==
    /\ ready = <<>>
    /\ arrivals < MaxEvents
    /\ LET id == Len(messages) + 1
           message == [id |-> id, channel |-> post.channel, author |-> post.author,
                       created_at |-> utcnow, edited_at |-> NoTime,
                       content |-> post.body.content,
                       attachments |-> post.body.attachments]
       IN  /\ messages' = Append(messages, message)
           /\ cache' = CacheAppend(cache, id)
           /\ ready' = <<Task("on_message", id)>>
           /\ events' = Append(events, [kind |-> "created", id |-> id, direct |-> TRUE])
    /\ arrivals' = arrivals + 1
    /\ UNCHANGED <<config, clock, waiting, files, dirs, written, errors, drops>>

\* MESSAGE_UPDATE for an edit of message id: raw_message_edit is dispatched
\* always, message_edit (to both registered listeners, in registration
\* order) only when the message is in the cache.
MessageUpdate(id) ==
    /\ ready = <<>>
    /\ arrivals < MaxEvents
    /\ messages' = [messages EXCEPT ![id].edited_at = utcnow,
                                    ![id].content = EditedBody.content,
                                    ![id].attachments = EditedBody.attachments]
    /\ ready' = <<Task("on_raw_message_edit", id)>>
                    \o (IF Cached(id)
                        THEN <<Task("on_message_edit_pass", id), Task("on_message_edit", id)>>
                        ELSE <<>>)
    /\ events' = Append(events, [kind |-> "edited", id |-> id, direct |-> Cached(id)])
    /\ arrivals' = arrivals + 1
    /\ UNCHANGED <<config, clock, cache, waiting, files, dirs, written, errors, drops>>

\* An hour passes (while the event loop is idle or waits for the platform).
Tick ==
    /\ ready = <<>>
    /\ clock < MaxClock
    /\ clock' = clock + 1
    /\ UNCHANGED <<config, messages, cache, arrivals, events, ready, waiting, files, dirs,
                   written, errors, drops>>

\* ------------------------------------------------------------ listeners
Starts(handler) == ready # <<>> /\ Head(ready).handler = handler

\* on_message (line 173)
on_message ==
    /\ Starts("on_message")
    /\ handle_message(messages[Head(ready).id], Head(ready))
    /\ ready' = Tail(ready)
    /\ UNCHANGED <<config, clock, messages, cache, arrivals, events, waiting, drops>>

\* The first listener with the call of handle_message(after) it has in a
\* comment.
on_message_edit_both_log ==
    /\ ready # <<>>
    /\ Head(ready).handler = "on_message_edit_pass"
    /\ handle_message(messages[Head(ready).id], Head(ready))
    /\ ready' = Tail(ready)
    /\ UNCHANGED <<config, clock, messages, cache, arrivals, events, waiting, drops>>

\* The first listener registered for message_edit (line 185): pass.
on_message_edit_pass ==
    /\ Starts("on_message_edit_pass")
    /\ ready' = Tail(ready)
    /\ UNCHANGED <<config, clock, messages, cache, arrivals, events, waiting, files, dirs,
                   written, errors, drops>>

\* The second listener registered for message_edit (line 204).
on_message_edit ==
    /\ Starts("on_message_edit")
    /\ handle_message(messages[Head(ready).id], Head(ready))
    /\ ready' = Tail(ready)
    /\ UNCHANGED <<config, clock, messages, cache, arrivals, events, waiting, drops>>

\* on_raw_message_edit up to its await (lines 192-197).  resolved is whether
\* bot.get_channel finds the channel.
Drop(t, cause) == drops' = drops \cup {[arrival |-> t.arrival, cause |-> cause]}

RawEditStart(t, resolved) ==
    IF Cached(t.id) THEN UNCHANGED <<waiting, drops>>
    ELSE LET channel == ChannelOf(messages[t.id].channel)
         IN  IF ~resolved
             THEN Drop(t, "channel") /\ UNCHANGED waiting
             ELSE IF channel.guild # NoGuild /\ channel.guild.id \in IGNORE_SERVERS
             THEN UNCHANGED <<waiting, drops>>
             ELSE waiting' = waiting \cup {t} /\ UNCHANGED drops

on_raw_message_edit ==
    /\ Starts("on_raw_message_edit")
    /\ \E resolved \in BOOLEAN : RawEditStart(Head(ready), resolved)
    /\ ready' = Tail(ready)
    /\ UNCHANGED <<config, clock, messages, cache, arrivals, events, files, dirs, written, errors>>

\* What channel.get_message can do: return the message as the platform
\* holds it now, return None, or raise (NotFound, Forbidden, HTTPException).
FetchOutcomes == {"message", "None", "raise"}

\* on_raw_message_edit from the await on (lines 197-200).
RawEditResume(t, outcome) ==
    IF outcome = "raise"
    THEN /\ Raise(t, "HTTPException")
         /\ Drop(t, "message")
         /\ UNCHANGED <<files, dirs, written>>
    ELSE IF outcome = "None"
    THEN /\ Drop(t, "message")
         /\ UNCHANGED <<files, dirs, written, errors>>
    ELSE /\ handle_message(messages[t.id], t)
         /\ UNCHANGED drops

get_message_done ==
    /\ ready = <<>>
    /\ \E t \in waiting : \E outcome \in FetchOutcomes :
          /\ RawEditResume(t, outcome)
          /\ waiting' = waiting \ {t}
    /\ UNCHANGED <<config, clock, messages, cache, arrivals, events, ready>>

Next ==
    \/ \E post \in Posts : MessageCreate(post)
    \/ \E id \in DOMAIN messages : MessageUpdate(id)
    \/ Tick
    \/ on_message
    \/ on_message_edit_pass
    \/ on_message_edit
    \/ on_raw_message_edit
    \/ get_message_done

Spec == Init /\ [][Next]_vars

\* ============================================================ properties
\* Helpers to state the properties.

StartsWith(s, prefix) == Len(s) >= Len(prefix) /\ SubSeq(s, 1, Len(prefix)) = prefix

\* The physical lines of a text: the pieces its "\n" characters end.
Lines(text) ==
    LET ends == {i \in 1..Len(text) : text[i] = "\n"}
        end(k) == CHOOSE i \in ends : Cardinality({j \in ends : j < i}) = k - 1
    IN  [k \in 1..Cardinality(ends) |->
            SubSeq(text, (IF k = 1 THEN 1 ELSE end(k - 1) + 1), end(k) - 1)]

IsDigit(c) == \E d \in 0..9 : c = Digit(d)

Ignored(message) == GuildOf(message).id \in IGNORE_SERVERS

Supported(message) ==
    ChannelOf(message.channel).kind \in {"TextChannel", "DMChannel", "GroupChannel"}

\* The listener tasks of event a that have not finished.
Pending(a) ==
    {t \in waiting : t.arrival = a}
        \cup {ready[i] : i \in {j \in 1..Len(ready) : ready[j].arrival = a}}

Finished(a) == Pending(a) = {}

\* The calls of write made for event a, as <<path, position>> pairs.
WritesOf(a) ==
    {pi \in UNION {{<<p, i>> : i \in 1..Len(written[p])} : p \in DOMAIN written} :
        written[pi[1]][pi[2]].arrival = a}

Edits == {a \in 1..Len(events) : events[a].kind = "edited"}

\* The listener tasks that take a step: the one started from the ready queue
\* and the one resumed from its await.
Acting ==
    (IF ready # <<>> /\ ready' = Tail(ready) THEN {Head(ready)} ELSE {})
        \cup (waiting \ waiting')

C2_IgnoredLeavesNoTrace ==
    [][\A t \in Acting :
          Ignored(messages[t.id]) => files' = files /\ dirs' = dirs]_vars

\* Two events for messages of an ignored guild have been handled to the end:
\* a message created and a message edited.
C2_Witness ==
    /\ \E a \in 1..Len(events) :
          /\ Ignored(messages[events[a].id])
          /\ events[a].kind = "edited"
          /\ Finished(a)
    /\ \E a \in 1..Len(events) :
          /\ Ignored(messages[events[a].id])
          /\ events[a].kind = "created"
          /\ Finished(a)

\* ------------------------------------------------------------------- C3
IsMarker(line) == StartsWith(line, SessionPrefix)

\* The text the data lines of a file add up to.
RECURSIVE DataText(_)
DataText(records) ==
    IF records = <<>> THEN <<>>
    ELSE Head(records).string \o <<"\n">> \o DataText(Tail(records))

\* C3: every log file has exactly one session-start marker line, its first
\* line, followed by the data lines of the writes to that path in order.
C3_OneMarkerFirst ==
    \A p \in DOMAIN files :
        LET lines == Lines(files[p])
        IN  /\ lines # <<>>
            /\ IsMarker(lines[1])
            /\ \A i \in 2..Len(lines) : ~IsMarker(lines[i])
            /\ p \in DOMAIN written
            /\ files[p] = lines[1] \o <<"\n">> \o DataText(written[p])

\* A file that was written to twice.
C3_Witness == \E p \in DOMAIN files : Len(written[p]) >= 2

\* ------------------------------------------------------------------- C4
IsPrefix(s, t) == Len(s) <= Len(t) /\ SubSeq(t, 1, Len(s)) = s

EditHandlers == {"on_message_edit", "on_raw_message_edit"}

\* C4: in every step each file keeps its content as a prefix of its new
\* content, and every line a step adds for an edit has an idtag that starts
\* with E:.
C4_AppendOnly ==
    [][/\ \A p \in DOMAIN files :
             p \in DOMAIN files' /\ IsPrefix(files[p], files'[p])
       /\ \A p \in DOMAIN written' :
             \A i \in 1..Len(written'[p]) :
                 (/\ (p \in DOMAIN written => i > Len(written[p]))
                  /\ written'[p][i].handler \in EditHandlers)
                     => StartsWith(written'[p][i].string, <<"[", "E", ":">>)]_vars

\* A message was logged when created and again, in the same file, when
\* edited.
C4_Witness ==
    \E p \in DOMAIN written :
        \E i, j \in 1..Len(written[p]) :
            /\ i < j
            /\ written[p][i].handler = "on_message"
            /\ written[p][j].handler \in EditHandlers
            /\ written[p][i].message.id = written[p][j].message.id

\* ------------------------------------------------------------------- C5
\* C5: in every file the data lines are in the order in which their events
\* arrived.
C5_ArrivalOrder ==
    \A p \in DOMAIN written :
        \A i, j \in 1..Len(written[p]) :
            i < j => written[p][i].arrival <= written[p][j].arrival

\* ------------------------------------------------------------------- C6
\* C6: handling a message whose conversation is of no supported kind fails
\* with UnsupportedConversationKind, raised by the routing, and writes
\* nothing.
C6_UnsupportedKindRejected ==
    /\ \A e \in errors :
          (~Supported(messages[events[e.arrival].id]) /\ e.exc # "HTTPException")
              => e.exc = "UnsupportedConversationKind"
    /\ \A p \in DOMAIN written :
          \A i \in 1..Len(written[p]) : Supported(written[p][i].message)

\* ------------------------------------------------------------------- C7
\* C7: a raw edit given up because its channel is not resolved or its message
\* is not fetched raises no error and appends no line.
C7_UnresolvableEditSilent ==
    \A d \in drops :
        /\ WritesOf(d.arrival) = {}
        /\ ~\E e \in errors : e.arrival = d.arrival /\ e.handler = "on_raw_message_edit"

\* ------------------------------------------------------------------- C8
IsDM(message) == ChannelOf(message.channel).kind = "DMChannel"

\* <log_root>/DM/<sanitized counterpart name>-<counterpart id>
CounterpartDir(message) ==
    LET counterpart == ChannelOf(message.channel).recipient
    IN  LOG_DIR \o <<"/", "D", "M", "/">> \o clean_filename(counterpart.name)
            \o <<"-">> \o Str(counterpart.id)

SameDate(m1, m2) ==
    /\ StrfF(EffectiveTime(m1)) = StrfF(EffectiveTime(m2))
    /\ StrfF(DisplayTime(m1)) = StrfF(DisplayTime(m2))

\* C8: every message of a direct message conversation is written to a .log
\* file in the directory named after the counterpart, whoever its author
\* is, so that messages of one conversation and one date share a file.
C8_DMRoutedByCounterpart ==
    \A p \in DOMAIN written :
        \A i \in 1..Len(written[p]) :
            IsDM(written[p][i].message) =>
                /\ dirname(p) = CounterpartDir(written[p][i].message)
                /\ SubSeq(p, Len(p) - 3, Len(p)) = <<".", "l", "o", "g">>
                /\ \A q \in DOMAIN written :
                      \A j \in 1..Len(written[q]) :
                          (/\ written[q][j].message.channel = written[p][i].message.channel
                           /\ SameDate(written[q][j].message, written[p][i].message))
                              => q = p

\* ------------------------------------------------------------------- C9
\* The <date> of a path <...>/<date>.log
DateSegment(path) == SubSeq(path, Len(path) - 13, Len(path) - 4)

\* C9: the date in the path of a line is the calendar date of the time
\* make_message prints in the line: the effective time under the
\* localtime-vs-UTC policy.
C9_FileDateFollowsPolicy ==
    \A p \in DOMAIN written :
        \A i \in 1..Len(written[p]) :
            DateSegment(p) = StrfF(DisplayTime(written[p][i].message))

\* ------------------------------------------------------------------ C10
\* 'Session start: <YYYY-MM-DD> <H>:00' with H the placeholder hour.
IsSessionStartForm(line) ==
    /\ Len(line) = Len(SessionPrefix) + 16
    /\ StartsWith(line, SessionPrefix)
    /\ LET rest == SubSeq(line, Len(SessionPrefix) + 1, Len(line))
       IN  /\ \A i \in {1, 2, 3, 4, 6, 7, 9, 10} : IsDigit(rest[i])
           /\ rest[5] = "-" /\ rest[8] = "-" /\ rest[11] = " "
           /\ SubSeq(rest, 12, 13) = (IF localtz.daylight # 0 THEN <<"1", "1">> ELSE <<"1", "0">>)
           /\ SubSeq(rest, 14, 16) = <<":", "0", "0">>

\* C10: the first line of every log file has the session-start form.
C10_MarkerForm ==
    \A p \in DOMAIN files : IsSessionStartForm(Lines(files[p])[1])

====
